---- MODULE Spec2Model ----
(***************************************************************************)
(* ezmsg-harvesters: the GenICam feature-tree builder (_spec.py), the      *)
(* camera session unit HarvesterCam (__init__.py) and the Qt controller    *)
(* GenicamController (_gui.py), as state machines.                         *)
(***************************************************************************)
EXTENDS Integers, Sequences, FiniteSets, TLC

VARIABLES
    \* build_feature_spec on its own
    collection,      \* the feature collection handed to build_feature_spec
    built,           \* what the calls made so far returned (or raised)
    \* the frame decoder of on_image on its own
    component,       \* the first component of the payload of the fetched buffer
    frame,           \* what decoding it gave (or raised)
    \* _spec.py, module state
    spec_defaults,   \* the dict created once as the default of parameter mapping
    \* the camera device behind the vendor SDK
    access,          \* access mode of each node whose access mode changes
    node_value,      \* value of each Integer/Float/Boolean/Enumeration/String node
    acquiring,       \* whether ia.start() was called more recently than ia.stop()
    \* HarvesterCam
    phase,           \* "constructed" before initialize, "running" after it,
                     \* "shut_down" after shutdown
    core,            \* STATE.core: how many times reset() was called on it
    ia,              \* STATE.ia: "None" or "ImageAcquirer"
    mode,            \* STATE.mode
    mode_change_ev,  \* STATE.mode_change_ev: whether the asyncio.Event is set
    mapping_obj,     \* the dict STATE.mapping names: "field" or "spec_defaults"
    send_ctrl_pc,    \* task send_ctrl: "start" or "done"
    pc,              \* task on_image: where the generator is suspended
    buffer,          \* task on_image: the object its local buffer names:
                     \* "unbound", "held" once fetched, "queued" once queue() ran
    last,            \* what the latest handler step did, emitted and raised
    \* GenicamController, its widgets and the module state of _gui.py
    gui

camVars == <<access, node_value, acquiring, phase, core, ia, mode, mode_change_ev,
             mapping_obj, send_ctrl_pc, pc, buffer, last>>
buildVars == <<collection, built, component, frame>>
vars == <<collection, built, component, frame, spec_defaults, access, node_value, acquiring, phase, core,
          ia, mode, mode_change_ev, mapping_obj, send_ctrl_pc, pc, buffer, last, gui>>

(***************************************************************************)
(* Bounds of the model.                                                    *)
(***************************************************************************)
\* size of the identifier space uuid4() draws from: room for two generations
\* of a tree
MaxUuid == 18
\* uuid4() streams start at a draw in 1..MaxSeed
MaxSeed == 1
\* longest feature collection handed to build_feature_spec on its own
MaxLen == 3
\* node values and written values range over 0..MaxValue
MaxValue == 1

\* most pixels (height * width) of an image the decoder is given on its own
MaxPixels == 2

UUIDs == 1 .. MaxUuid
Seeds == 1 .. MaxSeed
Values == 0 .. MaxValue

(***************************************************************************)
(* genicam.genapi enumerations used by the code.                           *)
(***************************************************************************)
EVisibility == [Beginner |-> 0, Expert |-> 1, Guru |-> 2, Invisible |-> 3]
VisibilityNames == {"Beginner", "Expert", "Guru", "Invisible"}
EAccessMode == {"NI", "NA", "WO", "RO", "RW"}
\* the integer an access mode is, as get_access_mode() returns it
EAccessModeValue == [NI |-> 0, NA |-> 1, WO |-> 2, RO |-> 3, RW |-> 4]
\* the access modes in which a node lets its value be read
Readable(access_mode) == access_mode \in {"RO", "RW"}
EInterfaceType ==
    {"intfICategory", "intfIInteger", "intfIFloat", "intfIBoolean",
     "intfIEnumeration", "intfIString", "intfICommand", "intfIRegister"}

Source == {"CAMERA", "CONTROLLER"}
Mode == {"STOPPED", "PAUSED", "STARTED"}

\* FeatureValue(source, uuid, value)
FeatureValue(source, uuid, value) ==
    [source |-> source, uuid |-> uuid, value |-> value]

(***************************************************************************)
(* uuid4(): a stream of draws from UUIDs; NextDraw is the draw that        *)
(* follows draw u in the stream.                                           *)
(***************************************************************************)
NextDraw(u) == (u % MaxUuid) + 1

\* while spec.uuid in mapping: spec.uuid = uuid4()
RECURSIVE Precautionary(_, _, _)
Precautionary(uuid, mapping, rng) ==
    IF uuid \in DOMAIN mapping
    THEN Precautionary(rng, mapping, NextDraw(rng))
    ELSE [uuid |-> uuid, rng |-> rng]

(***************************************************************************)
(* The spec dataclasses.  Field node is a ghost: the live node whose       *)
(* attributes the constructor call read; the properties use it, the        *)
(* operations never do.                                                    *)
(***************************************************************************)
CategoryFeatureSpec(feature, children, uuid) ==
    [interface_type |-> "intfICategory",
     display_name |-> feature.display_name,
     visibility |-> EAccessModeValue[feature.access_mode],
     children |-> children,
     uuid |-> uuid, node |-> feature.node]

IntegerFeatureSpecRW(feature, uuid) ==
    [interface_type |-> "intfIInteger",
     display_name |-> feature.display_name,
     visibility |-> feature.visibility,
     access_mode |-> feature.access_mode,
     min |-> feature.min, max |-> feature.max, inc |-> feature.inc,
     value |-> feature.value,
     uuid |-> uuid, node |-> feature.node]

\* min, max and inc keep their default None: the record has no such field
IntegerFeatureSpecRO(feature, uuid) ==
    [interface_type |-> "intfIInteger",
     display_name |-> feature.display_name,
     visibility |-> feature.visibility,
     access_mode |-> feature.access_mode,
     value |-> feature.value,
     uuid |-> uuid, node |-> feature.node]

CommandFeatureSpec(feature, uuid) ==
    [interface_type |-> "intfICommand",
     display_name |-> feature.display_name,
     visibility |-> feature.visibility,
     uuid |-> uuid, node |-> feature.node]

EnumFeatureSpec(feature, uuid) ==
    [interface_type |-> "intfIEnumeration",
     display_name |-> feature.display_name,
     visibility |-> feature.visibility,
     access_mode |-> feature.access_mode,
     value |-> feature.value,
     items |-> feature.entries,
     uuid |-> uuid, node |-> feature.node]

\* BooleanFeatureSpec, StringFeatureSpec and FloatFeatureSpec have the same fields
ValueFeatureSpec(feature, uuid) ==
    [interface_type |-> feature.principal_interface_type,
     display_name |-> feature.display_name,
     visibility |-> feature.visibility,
     access_mode |-> feature.access_mode,
     value |-> feature.value,
     uuid |-> uuid, node |-> feature.node]

(***************************************************************************)
(* build_feature_spec.  The state of the loop is                           *)
(*   err      "none", or the exception that ended the call                 *)
(*   specs    feature_specs                                                *)
(*   mapping  the dict passed in, mutated in place                         *)
(*   rng      the next draw of uuid4()                                     *)
(* The local name spec is bound exactly when specs is not empty, and is    *)
(* then the object last appended.                                          *)
(***************************************************************************)
Raise(st, err) == [st EXCEPT !.err = err]

\* spec.uuid = u for the object spec, which every list entry holding the
\* same object shows
SetUuid(specs, old, new) ==
    [k \in 1 .. Len(specs) |->
        IF specs[k].uuid = old THEN [specs[k] EXCEPT !.uuid = new] ELSE specs[k]]

\* lines 191-196 with spec bound by this iteration to a new object, whose
\* uuid field holds the draw st.rng that its default_factory made
Register(st, feature, spec) ==
    LET p == Precautionary(spec.uuid, st.mapping, NextDraw(st.rng))
    IN  [st EXCEPT !.specs = Append(st.specs, [spec EXCEPT !.uuid = p.uuid]),
                   !.mapping = (p.uuid :> feature.node) @@ st.mapping,
                   !.rng = p.rng]

\* lines 191-196 when the iteration bound no spec (Integer, access mode NA)
RegisterStale(st, feature) ==
    IF st.specs = <<>>
    THEN Raise(st, "UnboundLocalError")
    ELSE LET spec == st.specs[Len(st.specs)]
             p == Precautionary(spec.uuid, st.mapping, st.rng)
             renamed == SetUuid(st.specs, spec.uuid, p.uuid)
         IN  [st EXCEPT !.specs = Append(renamed, renamed[Len(renamed)]),
                        !.mapping = (p.uuid :> feature.node) @@ st.mapping,
                        !.rng = p.rng]

RECURSIVE BuildLoop(_, _, _)
BuildIteration(feature, st) ==
    LET interface_type == feature.principal_interface_type
        access_mode == feature.access_mode
    IN  CASE interface_type = "intfICategory" ->
                LET sub == BuildLoop(feature.features, 1,
                                     [st EXCEPT !.specs = <<>>])
                    back == [sub EXCEPT !.specs = st.specs]
                IN  IF sub.err # "none" THEN back
                    ELSE Register(back, feature,
                                  CategoryFeatureSpec(feature, sub.specs, back.rng))
          [] interface_type = "intfIInteger" ->
                CASE access_mode = "RW" -> Register(st, feature, IntegerFeatureSpecRW(feature, st.rng))
                  [] access_mode = "RO" -> Register(st, feature, IntegerFeatureSpecRO(feature, st.rng))
                  [] access_mode = "NA" -> RegisterStale(st, feature)
                  [] OTHER -> Raise(st, "ValueError")
          [] interface_type = "intfICommand" -> Register(st, feature, CommandFeatureSpec(feature, st.rng))
          [] interface_type \in {"intfIBoolean", "intfIString", "intfIFloat"} ->
                IF Readable(access_mode)
                THEN Register(st, feature, ValueFeatureSpec(feature, st.rng))
                ELSE Raise(st, "AccessException")
          [] interface_type = "intfIEnumeration" ->
                IF Readable(access_mode)
                THEN Register(st, feature, EnumFeatureSpec(feature, st.rng))
                ELSE Raise(st, "AccessException")
          [] OTHER -> Raise(st, "ValueError")

BuildLoop(features, i, st) ==
    IF i > Len(features) \/ st.err # "none" THEN st
    ELSE BuildLoop(features, i + 1, BuildIteration(features[i], st))

\* build_feature_spec(features, mapping) with uuid4() about to draw seed
build_feature_spec(features, mapping, seed) ==
    BuildLoop(features, 1,
              [err |-> "none", specs |-> <<>>, mapping |-> mapping, rng |-> seed])

\* build_feature_spec(features): parameter mapping takes its default, the one
\* dict object created when the def statement ran
build_feature_spec_default(fs, seed) ==
    build_feature_spec(fs, spec_defaults, seed)

\* number of nodes of a feature collection, nested ones included
RECURSIVE CountNodes(_)
CountNodes(fs) ==
    IF fs = <<>> THEN 0
    ELSE 1 + CountNodes(fs[1].features) + CountNodes(Tail(fs))

\* uuid4() can still return an identifier that is not in mapping
CanDraw(fs, mapping) ==
    Cardinality(DOMAIN mapping) + CountNodes(fs) <= MaxUuid

(***************************************************************************)
(* Live nodes as build_feature_spec reads them.                            *)
(***************************************************************************)
\* a display name is a string, held as the sequence of its words and spaces
DisplayName(kind) ==
    CASE kind = "intfICategory" -> <<"Category">>
      [] kind = "intfIInteger" -> <<"Integer">>
      [] kind = "intfIFloat" -> <<"Float">>
      [] kind = "intfIBoolean" -> <<"Boolean">>
      [] kind = "intfIEnumeration" -> <<"Enumeration">>
      [] kind = "intfIString" -> <<"String">>
      [] kind = "intfICommand" -> <<"Command">>
      [] OTHER -> <<"Register">>

Feature(node, kind, name, visibility, access_mode, value, children) ==
    [node |-> node,
     principal_interface_type |-> kind,
     display_name |-> name,
     visibility |-> visibility,
     access_mode |-> access_mode,
     value |-> value,
     min |-> 0, max |-> MaxValue, inc |-> 1,
     entries |-> <<"Off", "On">>,
     features |-> children]

Leaf(kind, access_mode) ==
    Feature(0, kind, DisplayName(kind), EVisibility.Expert, access_mode, MaxValue, <<>>)

LeafPool ==
    {Leaf("intfIInteger", am) : am \in EAccessMode}
    \cup {Leaf("intfIFloat", "RW"), Leaf("intfIBoolean", "RO"),
          Leaf("intfIEnumeration", "RW"), Leaf("intfIString", "NA"),
          Leaf("intfICommand", "RO"), Leaf("intfIRegister", "RO")}

CategoryOf(children) ==
    Feature(0, "intfICategory", DisplayName("intfICategory"),
            EVisibility.Beginner, "RO", 0, children)

FeaturePool ==
    LeafPool
    \cup {CategoryOf(<<Leaf("intfICommand", "RO"), Leaf("intfIInteger", "NA")>>),
          CategoryOf(<<Leaf("intfIInteger", "NA"), Leaf("intfIFloat", "RW")>>)}

\* the collection with its nodes numbered: i at the top, MaxLen * i + j below
Numbered(fs) ==
    [i \in 1 .. Len(fs) |->
        [fs[i] EXCEPT
            !.node = i,
            !.features = [j \in 1 .. Len(fs[i].features) |->
                            [fs[i].features[j] EXCEPT !.node = MaxLen * i + j]]]]

Collections ==
    UNION {[1 .. n -> FeaturePool] : n \in 1 .. MaxLen}

(***************************************************************************)
(* The camera: the node tree behind ia.remote_device.node_map.Root and     *)
(* what the device does with it.                                           *)
(***************************************************************************)
Node(kind, name, visibility, access_mode, children) ==
    [kind |-> kind, display_name |-> name, visibility |-> visibility,
     access_mode |-> access_mode, children |-> children]

NodeTable ==
    <<Node("intfICategory", <<"Acquisition">>, EVisibility.Beginner, "RO", <<2, 3, 4>>),
      Node("intfICommand", <<"Acquisition", " ", "Start">>, EVisibility.Beginner, "RW", <<>>),
      Node("intfICommand", <<"Acquisition", "Stop">>, EVisibility.Beginner, "RW", <<>>),
      Node("intfIInteger", <<"Width">>, EVisibility.Expert, "RW", <<>>),
      Node("intfICategory", <<"Device">>, EVisibility.Guru, "RO", <<6, 8>>),
      Node("intfICategory", <<"Clock">>, EVisibility.Guru, "RO", <<7>>),
      Node("intfIInteger", <<"Timestamp">>, EVisibility.Guru, "RO", <<>>),
      Node("intfICommand", <<"Device", "Reset">>, EVisibility.Guru, "RW", <<>>),
      Node("intfIRegister", <<"LUT">>, EVisibility.Guru, "RO", <<>>)>>

Nodes == DOMAIN NodeTable
\* Root.features
RootFeatures == <<1, 5, 9>>
ValueKinds ==
    {"intfIInteger", "intfIFloat", "intfIBoolean", "intfIEnumeration", "intfIString"}
ValueNodes == {n \in Nodes : NodeTable[n].kind \in ValueKinds}
\* the nodes whose access mode depends on the state of the device, and the
\* access modes the device gives them: Width is writable or not available,
\* Timestamp is read-only or not available, the register LUT is read-only or
\* not implemented
DynamicNodes == ValueNodes \cup {9}
AccessProfiles ==
    {p \in [DynamicNodes -> {"RW", "RO", "NA", "NI"}] :
        /\ p[4] \in {"RW", "NA"}
        /\ p[7] \in {"RO", "NA"}
        /\ p[9] \in {"RO", "NI"}}

\* node.features: the children of a node that are implemented
Implemented(ns, acc) ==
    SelectSeq(ns, LAMBDA n : ~(n \in DOMAIN acc /\ acc[n] = "NI"))

\* the live node objects of a collection, as build_feature_spec reads them
RECURSIVE LiveFeatures(_, _, _)
LiveFeatures(ns, acc, val) ==
    LET listed == Implemented(ns, acc)
    IN  [k \in 1 .. Len(listed) |->
            LET n == listed[k]
                row == NodeTable[n]
            IN  Feature(n, row.kind, row.display_name, row.visibility,
                        IF n \in DOMAIN acc THEN acc[n] ELSE row.access_mode,
                        IF n \in DOMAIN val THEN val[n] ELSE 0,
                        LiveFeatures(row.children, acc, val))]

\* feature.value = v can be accepted only by a Read-Write node
Writable(n, v) == access[n] = "RW" /\ v \in Values

(***************************************************************************)
(* HarvesterCam.                                                           *)
(***************************************************************************)
\* STATE.mapping
STATE_mapping == IF mapping_obj = "spec_defaults" THEN spec_defaults ELSE <<>>

FeatureSpecs(specs) == [specs |-> specs]

Step(op, branch, out, err, executed, builds) ==
    [op |-> op, branch |-> branch, out |-> out, err |-> err,
     executed |-> executed, builds |-> builds]

\* display_name.replace(" ", "")
RemoveSpaces(name) == SelectSeq(name, LAMBDA c : c # " ")
AcquisitionStart == <<"Acquisition", "Start">>
AcquisitionStop == <<"Acquisition", "Stop">>

\* the feature collections the guards below let a rebuild read
CanRebuild == CanDraw(LiveFeatures(RootFeatures, access, node_value), spec_defaults)

\* initialize, were auto_start to start a session that has no device bound
initialize_starts_unbound ==
    /\ phase = "constructed"
    /\ \E device_info_list \in 0 .. 1, connect_first_available \in BOOLEAN,
          auto_start \in BOOLEAN :
          LET bound == device_info_list > 0 /\ connect_first_available
          IN  /\ ia' = IF bound THEN "ImageAcquirer" ELSE "None"
              /\ IF auto_start
                 THEN mode' = "STARTED" /\ acquiring' = bound
                 ELSE UNCHANGED <<mode, acquiring>>
    /\ mode_change_ev' = FALSE
    /\ phase' = "running"
    /\ last' = Step("initialize", "", <<>>, "none", {}, 0)
    /\ UNCHANGED <<access, node_value, core, mapping_obj, spec_defaults, send_ctrl_pc,
                   pc, buffer>>
    /\ UNCHANGED buildVars
    /\ UNCHANGED gui

initialize ==
    /\ phase = "constructed"
    /\ \E device_info_list \in 0 .. 1, connect_first_available \in BOOLEAN,
          auto_start \in BOOLEAN :
          LET bound == device_info_list > 0 /\ connect_first_available
          IN  /\ ia' = IF bound THEN "ImageAcquirer" ELSE "None"
              /\ IF auto_start /\ bound
                 THEN mode' = "STARTED" /\ acquiring' = TRUE
                 ELSE UNCHANGED <<mode, acquiring>>
    /\ mode_change_ev' = FALSE
    /\ phase' = "running"
    /\ last' = Step("initialize", "", <<>>, "none", {}, 0)
    /\ UNCHANGED <<access, node_value, core, mapping_obj, spec_defaults, send_ctrl_pc,
                   pc, buffer>>
    /\ UNCHANGED buildVars
    /\ UNCHANGED gui

send_ctrl ==
    /\ phase = "running"
    /\ send_ctrl_pc = "start"
    /\ pc # "running"
    /\ send_ctrl_pc' = "done"
    /\ IF ia # "None"
       THEN \E seed \in Seeds :
              LET r == build_feature_spec_default(
                           LiveFeatures(RootFeatures, access, node_value), seed)
              IN  /\ spec_defaults' = r.mapping
                  /\ IF r.err = "none"
                     THEN /\ mapping_obj' = "spec_defaults"
                          /\ last' = Step("send_ctrl", "specs",
                                          <<FeatureSpecs(r.specs)>>, "none", {}, 1)
                     ELSE /\ UNCHANGED mapping_obj
                          /\ last' = Step("send_ctrl", "raised", <<>>, r.err, {}, 1)
       ELSE /\ UNCHANGED <<spec_defaults, mapping_obj>>
            /\ last' = Step("send_ctrl", "no_device", <<>>, "none", {}, 0)
    /\ UNCHANGED <<access, node_value, acquiring, phase, core, ia, mode,
                   mode_change_ev, pc, buffer>>
    /\ UNCHANGED buildVars
    /\ UNCHANGED gui

\* Transition, were AcquisitionStop to pause the session
Transition_pauses(feature, to) ==
    /\ acquiring' = (to = "STARTED")
    /\ mode' = IF to = "STOPPED" THEN "PAUSED" ELSE to
    /\ mode_change_ev' = TRUE
    /\ last' = Step("on_ctrl", "transition", <<>>, "none", {feature}, 0)
    /\ UNCHANGED <<access, node_value, spec_defaults, mapping_obj>>

\* lines 116-124 (to = "STARTED") and 129-137 (to = "STOPPED"), after feature.execute()
Transition(feature, to) ==
    /\ acquiring' = IF ia # "None" THEN to = "STARTED" ELSE acquiring
    /\ mode' = to
    /\ \E profile \in AccessProfiles, seed \in Seeds :
          /\ access' = IF ia # "None" THEN profile ELSE access
          /\ IF ia = "None"
             THEN /\ UNCHANGED <<spec_defaults, mapping_obj, mode_change_ev>>
                  /\ last' = Step("on_ctrl", "raised", <<>>, "AttributeError",
                                  {feature}, 0)
             ELSE LET r == build_feature_spec_default(
                               LiveFeatures(RootFeatures, access', node_value), seed)
                  IN  /\ spec_defaults' = r.mapping
                      /\ IF r.err = "none"
                         THEN /\ mapping_obj' = "spec_defaults"
                              /\ mode_change_ev' = TRUE
                              /\ last' = Step("on_ctrl", "transition",
                                              <<FeatureSpecs(r.specs)>>, "none",
                                              {feature}, 1)
                         ELSE /\ UNCHANGED <<mapping_obj, mode_change_ev>>
                              /\ last' = Step("on_ctrl", "raised", <<>>, r.err,
                                              {feature}, 1)
    /\ UNCHANGED node_value

\* lines 146-153.  The device accepts or refuses the write; the except clause
\* reads feature.value, which a node that is not readable refuses as well
Write(feature, message) ==
    /\ \E accepted \in BOOLEAN :
          /\ accepted => Writable(feature, message.value)
          /\ IF accepted
             THEN /\ node_value' = [node_value EXCEPT ![feature] = message.value]
                  /\ last' = Step("on_ctrl", "written", <<>>, "none", {}, 0)
             ELSE /\ UNCHANGED node_value
                  /\ last' = IF Readable(access[feature])
                             THEN Step("on_ctrl", "rejected",
                                       <<FeatureValue("CAMERA", message.uuid,
                                                      node_value[feature])>>,
                                       "none", {}, 0)
                             ELSE Step("on_ctrl", "raised", <<>>, "AccessException",
                                       {}, 0)
    /\ UNCHANGED <<access, acquiring, mode, mode_change_ev, mapping_obj, spec_defaults>>

\* Ignore, were the handler to wake the acquisition loop before returning
Ignore_sets_event(branch, err) ==
    /\ last' = Step("on_ctrl", branch, <<>>, err, {}, 0)
    /\ mode_change_ev' = TRUE
    /\ UNCHANGED <<access, node_value, acquiring, mode, mapping_obj, spec_defaults>>

\* a return, or a raise, before anything was assigned or emitted
Ignore(branch, err) ==
    /\ last' = Step("on_ctrl", branch, <<>>, err, {}, 0)
    /\ UNCHANGED <<access, node_value, acquiring, mode, mode_change_ev, mapping_obj,
                   spec_defaults>>

on_ctrl(message) ==
    /\ phase = "running"
    /\ pc # "running"
    /\ IF message.source # "CONTROLLER"
       THEN Ignore("not_controller", "none")
       ELSE IF message.uuid \notin DOMAIN STATE_mapping
       THEN Ignore("unknown", "none")
       ELSE LET feature == STATE_mapping[message.uuid]
                kind == NodeTable[feature].kind
                display_name == NodeTable[feature].display_name
            IN  CASE kind = "intfICategory" -> Ignore("category", "none")
                  [] kind = "intfICommand" ->
                        IF RemoveSpaces(display_name) = AcquisitionStart
                           /\ mode # "STARTED"
                        THEN CanRebuild /\ Transition(feature, "STARTED")
                        ELSE IF RemoveSpaces(display_name) = AcquisitionStop
                                /\ mode # "STOPPED"
                        THEN CanRebuild /\ Transition(feature, "STOPPED")
                        ELSE /\ last' = Step("on_ctrl", "command", <<>>, "none",
                                             {feature}, 0)
                             /\ UNCHANGED <<access, node_value, acquiring, mode,
                                            mode_change_ev, mapping_obj, spec_defaults>>
                  [] kind \in ValueKinds -> Write(feature, message)
                  [] OTHER -> Ignore("raised", "ValueError")
    /\ UNCHANGED <<phase, core, ia, send_ctrl_pc, pc, buffer>>
    /\ UNCHANGED buildVars
    /\ UNCHANGED gui

Messages == {FeatureValue(s, u, v) : s \in Source, u \in UUIDs, v \in Values}

(***************************************************************************)
(* The frame decoder, lines 174-223 of on_image.  A pixel format is held   *)
(* with what harvesters.util.pfnc knows of it: the lists it is in, and the *)
(* bits of one sample, which get_bits_per_pixel returns (0 stands for its  *)
(* None).  An image is a sequence of rows, a row a sequence of pixels, a   *)
(* pixel a sample or the sequence of its samples.                          *)
(***************************************************************************)
PixelFormat(name, bits) == [name |-> name, bits |-> bits]

mono_location_formats ==
    {PixelFormat("Mono8", 8), PixelFormat("Mono10", 10), PixelFormat("Mono16", 16)}
bayer_location_formats == {PixelFormat("BayerRG8", 8), PixelFormat("BayerRG12", 12)}
rgb_formats == {PixelFormat("RGB8", 8), PixelFormat("RGB16", 16)}
rgba_formats == {PixelFormat("RGBa8", 8)}
bgr_formats == {PixelFormat("BGR8", 8), PixelFormat("BGR12", 12)}
bgra_formats == {PixelFormat("BGRa8", 8), PixelFormat("BGRa10", 10)}
\* a format of none of the lists, and data_format = None
YUV422_8 == PixelFormat("YUV422_8", 8)
NoFormat == PixelFormat("None", 0)

PixelFormats ==
    mono_location_formats \cup bayer_location_formats \cup rgb_formats
    \cup rgba_formats \cup bgr_formats \cup bgra_formats \cup {YUV422_8}

get_bits_per_pixel(data_format) == data_format.bits

\* component.num_components_per_pixel
NumComponentsPerPixel(data_format) ==
    CASE data_format \in rgb_formats \cup bgr_formats -> 3
      [] data_format \in rgba_formats \cup bgra_formats -> 4
      [] data_format = YUV422_8 -> 2
      [] OTHER -> 1

\* a component of a buffer payload; custom is is_custom(data_format_value)
Component(data_format, custom, height, width, data) ==
    [data_format |-> data_format, custom |-> custom,
     height |-> height, width |-> width,
     num_components_per_pixel |-> NumComponentsPerPixel(data_format),
     data |-> data]

\* component.data.reshape(height, width)
Reshape2(data, height, width) ==
    [r \in 1 .. height |-> [c \in 1 .. width |-> data[(r - 1) * width + c]]]

\* component.data.reshape(height, width, n)
Reshape3(data, height, width, n) ==
    [r \in 1 .. height |->
        [c \in 1 .. width |->
            [k \in 1 .. n |-> data[((r - 1) * width + (c - 1)) * n + k]]]]

\* content[:, :, ::-1]
ReverseChannels(content) ==
    [r \in DOMAIN content |->
        [c \in DOMAIN content[r] |->
            [k \in DOMAIN content[r][c] |->
                content[r][c][Len(content[r][c]) - k + 1]]]]

\* (content / (2**exponent)).astype(np.uint8) of a three-dimensional array:
\* the quotient is truncated, and kept modulo 2^8
ToUint8(content, exponent) ==
    [r \in DOMAIN content |->
        [c \in DOMAIN content[r] |->
            [k \in DOMAIN content[r][c] |->
                (content[r][c][k] \div (2 ^ exponent)) % 256]]]

\* lines 174-223: content, or the exception of line 214
decode(c) ==
    LET data_format == IF c.custom THEN NoFormat ELSE c.data_format
        bpp == get_bits_per_pixel(data_format)
        exponent == IF bpp # 0 THEN bpp - 8 ELSE 0
    IN  IF data_format \in mono_location_formats \cup bayer_location_formats
        THEN [err |-> "none", content |-> Reshape2(c.data, c.height, c.width)]
        ELSE IF data_format \in rgb_formats \cup rgba_formats
                                \cup bgr_formats \cup bgra_formats
        THEN LET shaped == Reshape3(c.data, c.height, c.width,
                                    c.num_components_per_pixel)
                 ordered == IF data_format \in bgr_formats
                            THEN ReverseChannels(shaped) ELSE shaped
             IN  [err |-> "none",
                  content |-> IF exponent > 0 THEN ToUint8(ordered, exponent)
                              ELSE ordered]
        ELSE [err |-> "Exception", content |-> <<>>]

\* two sample values of a format: one that a division by 2^(bits-8) does not
\* give exactly, and the largest
SampleValues(data_format) ==
    {2 ^ (data_format.bits - 7) - 1, 2 ^ data_format.bits - 1}

Shapes == {hw \in (1 .. MaxPixels) \X (1 .. MaxPixels) : hw[1] * hw[2] <= MaxPixels}

\* the components of the given shapes, which the decoder is given on its own
Components(shapes) ==
    UNION {
        {Component(f, custom, hw[1], hw[2], data) :
            data \in [1 .. hw[1] * hw[2] * NumComponentsPerPixel(f) -> SampleValues(f)],
            custom \in IF f = PixelFormat("Mono8", 8) THEN BOOLEAN ELSE {FALSE}} :
        f \in PixelFormats, hw \in shapes}

\* the components the camera of the session delivers: one pixel of a format
\* of each list, of a format of no list and of a custom format; the first
\* sample of a pixel is the smaller value and the others the largest
SessionData(f) ==
    [k \in 1 .. NumComponentsPerPixel(f) |->
        IF k = 1 /\ NumComponentsPerPixel(f) > 1
        THEN 2 ^ (f.bits - 7) - 1 ELSE 2 ^ f.bits - 1]

SessionFormats ==
    {PixelFormat("Mono16", 16), PixelFormat("BayerRG8", 8), PixelFormat("RGB16", 16),
     PixelFormat("RGBa8", 8), PixelFormat("BGR8", 8), PixelFormat("BGRa8", 8),
     YUV422_8}

SessionComponents ==
    {Component(f, FALSE, 1, 1, SessionData(f)) : f \in SessionFormats}
    \cup {Component(PixelFormat("Mono16", 16), TRUE, 1, 1,
                     SessionData(PixelFormat("Mono16", 16)))}

(***************************************************************************)
(* on_image, the acquisition loop.  pc is where the generator stands:      *)
(*   "start"          created, not yet run                                 *)
(*   "wait"           await mode_change_ev.wait()   (lines 238 and 241)    *)
(*   "sleep_timeout"  await asyncio.sleep(0.1)      (line 169)             *)
(*   "yield"          yield of the frame            (line 233)             *)
(*   "sleep"          await asyncio.sleep(1 / 90)   (line 236)             *)
(*   "raised"         ended by an exception         (line 214)             *)
(***************************************************************************)
\* how a pass through the Started branch ends
FetchBranches == {"timeout", "buffer", "unsupported"}

\* the frame message of lines 225-232
AxisArray(content) == [data |-> content, dims |-> <<"rows", "cols">>]

\* FetchTimeout, were the except clause to emit a frame
FetchTimeout_frame(ev) ==
    /\ pc' = "sleep_timeout"
    /\ UNCHANGED buffer
    /\ mode_change_ev' = ev
    /\ last' = Step("on_image", "timeout", <<AxisArray(<<>>)>>, "none", {}, 0)

\* lines 167-169: the fetch timed out
FetchTimeout(ev) ==
    /\ pc' = "sleep_timeout"
    /\ UNCHANGED buffer
    /\ mode_change_ev' = ev
    /\ last' = Step("on_image", "timeout", <<>>, "none", {}, 0)

\* lines 170-233: the fetch gave a buffer whose first component is c
FetchBuffer(c, ev) ==
    LET decoded == decode(c)
    IN  /\ pc' = IF decoded.err = "none" THEN "yield" ELSE "raised"
        /\ buffer' = "held"
        /\ mode_change_ev' = ev
        /\ last' = IF decoded.err = "none"
                   THEN Step("on_image", "buffer", <<AxisArray(decoded.content)>>,
                             "none", {}, 0)
                   ELSE Step("on_image", "unsupported", <<>>, decoded.err, {}, 0)

\* a pass that does not reach the fetch
IdlePass(ev) ==
    IF mode = "STARTED"
    THEN /\ pc' = "running"
         /\ mode_change_ev' = ev
         /\ UNCHANGED buffer
         /\ last' = Step("on_image", "no_device", <<>>, "none", {}, 0)
    ELSE /\ pc' = "wait"
         /\ mode_change_ev' = FALSE
         /\ UNCHANGED buffer
         /\ last' = Step("on_image", "wait", <<>>, "none", {}, 0)

\* one pass of the while loop, from the match statement to the next suspension;
\* ev is the state of the event on arrival
LoopPass(ev) ==
    IF mode = "STARTED" /\ ia # "None"
    THEN \/ FetchTimeout(ev)
         \/ \E c \in SessionComponents : FetchBuffer(c, ev)
    ELSE IdlePass(ev)

on_image_run ==
    /\ phase = "running"
    /\ pc \in {"start", "sleep"}
    /\ LoopPass(mode_change_ev)
    /\ UNCHANGED <<access, node_value, acquiring, phase, core, ia, mode, mapping_obj,
                   spec_defaults, send_ctrl_pc>>
    /\ UNCHANGED buildVars
    /\ UNCHANGED gui

on_image_wake ==
    /\ phase = "running"
    /\ pc = "wait"
    /\ mode_change_ev
    /\ LoopPass(FALSE)
    /\ UNCHANGED <<access, node_value, acquiring, phase, core, ia, mode, mapping_obj,
                   spec_defaults, send_ctrl_pc>>
    /\ UNCHANGED buildVars
    /\ UNCHANGED gui

on_image_timeout ==
    /\ phase = "running"
    /\ pc = "sleep_timeout"
    /\ pc' = "sleep"
    /\ UNCHANGED buffer
    /\ last' = Step("on_image", "slept", <<>>, "none", {}, 0)
    /\ UNCHANGED <<access, node_value, acquiring, phase, core, ia, mode,
                   mode_change_ev, mapping_obj, spec_defaults, send_ctrl_pc>>
    /\ UNCHANGED buildVars
    /\ UNCHANGED gui

on_image_queue ==
    /\ phase = "running"
    /\ pc = "yield"
    /\ pc' = "sleep"
    /\ buffer' = "queued"
    /\ last' = Step("on_image", "queued", <<>>, "none", {}, 0)
    /\ UNCHANGED <<access, node_value, acquiring, phase, core, ia, mode,
                   mode_change_ev, mapping_obj, spec_defaults, send_ctrl_pc>>
    /\ UNCHANGED buildVars
    /\ UNCHANGED gui

\* shutdown, were core.reset() called only when a device is bound
shutdown_reset_if_bound ==
    /\ phase = "running"
    /\ pc # "running"
    /\ phase' = "shut_down"
    /\ acquiring' = IF ia # "None" THEN FALSE ELSE acquiring
    /\ core' = IF ia # "None" THEN core + 1 ELSE core
    /\ last' = Step("shutdown", IF ia # "None" THEN "stop" ELSE "no_device",
                    <<>>, "none", {}, 0)
    /\ UNCHANGED <<access, node_value, ia, mode, mode_change_ev, mapping_obj,
                   spec_defaults, send_ctrl_pc, pc, buffer>>
    /\ UNCHANGED buildVars
    /\ UNCHANGED gui

\* shutdown (lines 244-247): a coroutine without an await, run once when the
\* unit is taken down, at any suspension point of the tasks of the unit; they
\* do not run after it
shutdown ==
    /\ phase = "running"
    /\ pc # "running"
    /\ phase' = "shut_down"
    /\ acquiring' = IF ia # "None" THEN FALSE ELSE acquiring
    /\ core' = core + 1
    /\ last' = Step("shutdown", IF ia # "None" THEN "stop" ELSE "no_device",
                    <<>>, "none", {}, 0)
    /\ UNCHANGED <<access, node_value, ia, mode, mode_change_ev, mapping_obj,
                   spec_defaults, send_ctrl_pc, pc, buffer>>
    /\ UNCHANGED buildVars
    /\ UNCHANGED gui

(***************************************************************************)
(* _gui.py.  The magicgui widgets are objects in a store, g.widgets, each  *)
(* named by its position there.  A widget has the attribute                *)
(* visible_override only once a callback has assigned it, and a value only *)
(* if its class holds one.  Field on_value_changed of a leaf widget is the *)
(* identifier bound in the closure connected to its signal changed; field  *)
(* callbacks of the visibility ComboBox is what is connected to its signal *)
(* changed, in connection order.                                           *)
(***************************************************************************)
Container(labels, layout, children) ==
    [kind |-> "Container", labels |-> labels, layout |-> layout,
     children |-> children, native_parent_changed |-> 0,
     enabled |-> TRUE, visible |-> TRUE, deleted |-> FALSE]

Label(name) ==
    [kind |-> "Label", name |-> name,
     enabled |-> TRUE, visible |-> TRUE, deleted |-> FALSE]

\* the selector of lines 31-35; its value starts at the first choice
VisibilityChoices == <<"Beginner", "Expert", "Guru", "Invisible">>
VisibilityComboBox ==
    [kind |-> "ComboBox", name |-> <<"Visibility">>, choices |-> VisibilityChoices,
     level |-> VisibilityChoices[1], callbacks |-> <<>>,
     enabled |-> TRUE, visible |-> TRUE, deleted |-> FALSE]

ValueWidget(kind, spec) ==
    [kind |-> kind, name |-> spec.display_name, value |-> spec.value,
     on_value_changed |-> 0,
     enabled |-> TRUE, visible |-> TRUE, deleted |-> FALSE]

\* lines 57-68: min, max and step are passed only when the spec holds them
SpinBox(spec) ==
    IF "min" \in DOMAIN spec
    THEN [min |-> spec.min, max |-> spec.max, step |-> spec.inc]
         @@ ValueWidget("SpinBox", spec)
    ELSE ValueWidget("SpinBox", spec)

PushButton(spec) ==
    [kind |-> "PushButton", name |-> spec.display_name, on_value_changed |-> 0,
     enabled |-> TRUE, visible |-> TRUE, deleted |-> FALSE]

\* the specs lines 57-94 make a widget for
LeafKinds == ValueKinds \cup {"intfICommand"}

\* the widget of a spec that is not a category (lines 57-94)
LeafWidget(spec) ==
    CASE spec.interface_type = "intfIInteger" -> SpinBox(spec)
      [] spec.interface_type = "intfICommand" -> PushButton(spec)
      [] spec.interface_type = "intfIBoolean" ->
            [choices |-> <<"True", "False">>] @@ ValueWidget("ComboBox", spec)
      [] spec.interface_type = "intfIEnumeration" ->
            [choices |-> spec.items] @@ ValueWidget("ComboBox", spec)
      [] spec.interface_type = "intfIString" -> ValueWidget("LineEdit", spec)
      [] spec.interface_type = "intfIFloat" -> ValueWidget("LineEdit", spec)

\* check_widget_visibility(widget, spec) and check_container_visibility(con,
\* label), as connected to cb_visibility.changed
check_widget_visibility(widget, spec) ==
    [fn |-> "check_widget_visibility", widget |-> widget,
     visibility |-> spec.visibility, priority |-> 0]

check_container_visibility(con, label) ==
    [fn |-> "check_container_visibility", con |-> con, label |-> label,
     priority |-> 0 - 1]

\* a new object enters the store
Alloc(st, w) == [st EXCEPT !.widgets = Append(@, w)]
\* cb_visibility.changed.connect(callback)
Connect(st, cb_visibility, callback) ==
    [st EXCEPT !.widgets[cb_visibility].callbacks = Append(@, callback)]

(***************************************************************************)
(* build_widgets_from_spec.  The state of the call is                      *)
(*   err      "none", or the exception that ended the call                 *)
(*   widgets  the store                                                    *)
(*   mapping  the dict passed in, mutated in place                         *)
(*   ret      the Container the call returns                               *)
(* cb_visibility = 0 stands for None.                                      *)
(***************************************************************************)
RECURSIVE WidgetLoop(_, _, _, _, _)
build_widgets_from_spec(specs, cb_visibility, st) ==
    LET widgets == Len(st.widgets) + 1
        s1 == Alloc(st, Container(cb_visibility # 0, "vertical", <<>>))
    IN  IF cb_visibility = 0
        THEN LET cb == widgets + 1
                 s2 == Alloc(Alloc(s1, VisibilityComboBox), Label(<<"Visibility">>))
                 s3 == Alloc(s2, Container(FALSE, "horizontal", <<cb + 1, cb>>))
                 s4 == [s3 EXCEPT !.widgets[widgets].native_parent_changed = cb,
                                  !.widgets[widgets].children = <<cb + 2>>]
             IN  WidgetLoop(specs, 1, cb, s4, widgets)
        ELSE WidgetLoop(specs, 1, cb_visibility, s1, widgets)

\* lines 98-109 for the widget just made
Place(spec, cb_visibility, st, widgets, widget) ==
    LET is_container == st.widgets[widget].kind = "Container"
        s1 == IF spec.interface_type \notin {"intfICategory", "intfICommand"}
                 /\ spec.access_mode = "RO"
              THEN [st EXCEPT !.widgets[widget].enabled = FALSE]
              ELSE st
        s2 == IF is_container THEN s1
              ELSE [Connect(s1, cb_visibility, check_widget_visibility(widget, spec))
                       EXCEPT !.widgets[widget].on_value_changed = spec.uuid]
    IN  [s2 EXCEPT !.widgets[widgets].children = Append(@, widget),
                   !.mapping = (spec.uuid :> widget) @@ st.mapping]

WidgetIteration(spec, cb_visibility, st, widgets) ==
    IF spec.interface_type = "intfICategory"
    THEN LET sub == build_widgets_from_spec(spec.children, cb_visibility, st)
             widget == sub.ret
             category_label == Len(sub.widgets) + 1
             s1 == Alloc(sub, Label(spec.display_name))
             s2 == [s1 EXCEPT !.widgets[widget].children = <<category_label>> \o @]
             s3 == Connect(s2, cb_visibility,
                           check_container_visibility(widget, category_label))
         IN  IF sub.err # "none" THEN sub
             ELSE Place(spec, cb_visibility, s3, widgets, widget)
    ELSE IF spec.interface_type \notin LeafKinds THEN [st EXCEPT !.err = "ValueError"]
    ELSE Place(spec, cb_visibility, Alloc(st, LeafWidget(spec)), widgets,
               Len(st.widgets) + 1)

WidgetLoop(specs, i, cb_visibility, st, widgets) ==
    IF i > Len(specs) \/ st.err # "none" THEN [st EXCEPT !.ret = widgets]
    ELSE WidgetLoop(specs, i + 1, cb_visibility,
                    WidgetIteration(specs[i], cb_visibility, st, widgets), widgets)

(***************************************************************************)
(* The signal cb_visibility.changed.                                       *)
(***************************************************************************)
\* the inner function of check_widget_visibility or check_container_visibility
\* called with level; reading an attribute an object does not have raises
RunCallback(callback, level, g) ==
    IF callback.fn = "check_widget_visibility"
    THEN LET shown == ~(callback.visibility > EVisibility[level])
         IN  [g EXCEPT !.widgets[callback.widget] =
                          [visible |-> shown, visible_override |-> shown] @@ @]
    ELSE LET others == SelectSeq(g.widgets[callback.con].children,
                                 LAMBDA each : each # callback.label)
         IN  IF \E k \in 1 .. Len(others) :
                    "visible_override" \notin DOMAIN g.widgets[others[k]]
             THEN [g EXCEPT !.err = "AttributeError"]
             ELSE [g EXCEPT !.widgets[callback.label].visible =
                              \E k \in 1 .. Len(others) :
                                  g.widgets[others[k]].visible_override]

\* the callbacks in the order the signal calls them: by falling priority,
\* and by connection order within a priority
ByPriority(callbacks) ==
    SelectSeq(callbacks, LAMBDA c : c.priority = 0)
    \o SelectSeq(callbacks, LAMBDA c : c.priority < 0)

\* an exception raised by a callback ends the loop
RECURSIVE EmitLoop(_, _, _, _)
EmitLoop(callbacks, i, level, g) ==
    IF i > Len(callbacks) \/ g.err # "none" THEN g
    ELSE EmitLoop(callbacks, i + 1, level, RunCallback(callbacks[i], level, g))

\* cb_visibility.changed.emit(level)
EmitChanged(g, cb_visibility, level) ==
    EmitLoop(ByPriority(g.widgets[cb_visibility].callbacks), 1, level, g)

(***************************************************************************)
(* GenicamController.  g is the controller with the objects it reaches:    *)
(*   widgets          the store                                            *)
(*   widget_defaults  the dict created once as the default of parameter    *)
(*                    mapping of build_widgets_from_spec                   *)
(*   mapping_obj      the dict self.mapping names: "field" or              *)
(*                    "widget_defaults"                                    *)
(*   root             scroll_area.widget(), 0 for none                     *)
(*   alive            whether the process still runs                       *)
(*   op, message, specs, emitted, err                                      *)
(*                    the latest handler, what it was given, what          *)
(*                    command_signal emitted during it and what it raised  *)
(***************************************************************************)
GuiConstructed ==
    [widgets |-> <<>>, widget_defaults |-> <<>>, mapping_obj |-> "field",
     root |-> 0, alive |-> TRUE,
     op |-> "", message |-> <<>>, specs |-> <<>>, emitted |-> <<>>, err |-> "none"]

\* self.mapping
GuiMapping(g) == IF g.mapping_obj = "widget_defaults" THEN g.widget_defaults ELSE <<>>

\* the objects of the widget tree under w, w included
RECURSIVE Subtree(_, _)
Subtree(widgets, w) ==
    {w} \cup (IF "children" \in DOMAIN widgets[w]
              THEN UNION {Subtree(widgets, widgets[w].children[k]) :
                            k \in 1 .. Len(widgets[w].children)}
              ELSE {})

\* the widgets on screen
Rendered(g) == IF g.root = 0 THEN {} ELSE Subtree(g.widgets, g.root)

\* scroll_area.setWidget(widgets.native): Qt deletes the widget it replaces,
\* then the new widget's parent changes and line 37 runs.  Of a deleted
\* widget nothing but its class can be read any more
setWidget(g, widgets) ==
    LET gone == Rendered(g)
        cb_visibility == g.widgets[widgets].native_parent_changed
        shown == [g EXCEPT !.root = widgets,
                           !.widgets = [w \in DOMAIN g.widgets |->
                                          IF w \in gone
                                          THEN [kind |-> g.widgets[w].kind, deleted |-> TRUE]
                                          ELSE g.widgets[w]]]
    IN  EmitChanged(shown, cb_visibility, shown.widgets[cb_visibility].level)

Handling(g, op, message) ==
    [g EXCEPT !.op = op, !.message = message, !.emitted = <<>>, !.err = "none"]

on_feature_specs(g, specs) ==
    LET g0 == [Handling(g, "on_feature_specs", <<>>) EXCEPT !.specs = specs.specs]
        b == build_widgets_from_spec(specs.specs, 0,
                 [err |-> "none", widgets |-> g0.widgets,
                  mapping |-> g0.widget_defaults, ret |-> 0])
        g1 == [g0 EXCEPT !.widgets = b.widgets, !.widget_defaults = b.mapping,
                         !.err = b.err]
    IN  IF b.err # "none" THEN g1
        ELSE [setWidget(g1, b.ret) EXCEPT !.mapping_obj = "widget_defaults"]

\* on_value_changed(widget, uuid), called with value
on_value_changed(g, widget, value) ==
    [g EXCEPT !.emitted = Append(@, FeatureValue("CONTROLLER",
                                     g.widgets[widget].on_value_changed, value))]

\* widget.value = value.  A Container takes it as a plain attribute; any
\* other widget hands it to its Qt object, which raises if Qt deleted it,
\* and signals changed when the value is a new one
SetValue(g, widget, value, blocked) ==
    LET w == g.widgets[widget]
        set == [g EXCEPT !.widgets[widget] = [value |-> value] @@ @]
    IN  IF w.kind = "Container" THEN set
        ELSE IF w.deleted THEN [g EXCEPT !.err = "RuntimeError"]
        ELSE IF blocked \/ "value" \notin DOMAIN w \/ "on_value_changed" \notin DOMAIN w
        THEN set
        ELSE IF w.value = value THEN set
        ELSE on_value_changed(set, widget, value)

\* on_feature_value without the with statement of line 167
on_feature_value_unblocked(g, feature) ==
    LET g0 == Handling(g, "on_feature_value", feature)
    IN  IF feature.source # "CAMERA" THEN g0
        ELSE IF feature.uuid \in DOMAIN GuiMapping(g0)
        THEN SetValue(g0, GuiMapping(g0)[feature.uuid], feature.value, FALSE)
        ELSE g0

\* on_feature_value without the test of lines 162-163
on_feature_value_any_origin(g, feature) ==
    LET g0 == Handling(g, "on_feature_value", feature)
    IN  IF feature.uuid \in DOMAIN GuiMapping(g0)
        THEN SetValue(g0, GuiMapping(g0)[feature.uuid], feature.value, TRUE)
        ELSE g0

on_feature_value(g, feature) ==
    LET g0 == Handling(g, "on_feature_value", feature)
    IN  IF feature.source # "CAMERA" THEN g0
        ELSE IF feature.uuid \in DOMAIN GuiMapping(g0)
        THEN SetValue(g0, GuiMapping(g0)[feature.uuid], feature.value, TRUE)
        ELSE g0

\* the user picks level in the visibility selector
select_visibility(g, level) ==
    LET g0 == Handling(g, "select_visibility", <<>>)
        cb_visibility == g0.widgets[g0.root].native_parent_changed
    IN  EmitChanged([g0 EXCEPT !.widgets[cb_visibility].level = level],
                    cb_visibility, level)

\* the user enters value in a control, or presses a button
edit(g, widget, value) ==
    LET g0 == Handling(g, "edit", <<>>)
    IN  IF g0.widgets[widget].kind = "PushButton"
        THEN on_value_changed(g0, widget, 0)
        ELSE SetValue(g0, widget, value, FALSE)

\* the controls the user can operate
Editable(g) ==
    {w \in Rendered(g) :
        /\ "on_value_changed" \in DOMAIN g.widgets[w]
        /\ g.widgets[w].enabled
        /\ g.widgets[w].visible}

(***************************************************************************)
(* The camera session.                                                     *)
(***************************************************************************)
CamConstructed ==
    /\ access \in AccessProfiles
    /\ node_value = [n \in ValueNodes |-> 0]
    /\ acquiring = FALSE
    /\ phase = "constructed"
    /\ core = 0
    /\ ia = "None"
    /\ mode = "STOPPED"
    /\ mode_change_ev = FALSE
    /\ mapping_obj = "field"
    /\ send_ctrl_pc = "start"
    /\ pc = "start"
    /\ buffer = "unbound"
    /\ last = Step("", "", <<>>, "none", {}, 0)

Init ==
    /\ CamConstructed
    /\ spec_defaults = <<>>
    /\ collection = <<>>
    /\ built = <<>>
    /\ component = <<>>
    /\ frame = <<>>
    /\ gui = GuiConstructed

Next ==
    \/ initialize
    \/ send_ctrl
    \/ \E message \in Messages : on_ctrl(message)
    \/ on_image_run
    \/ on_image_wake
    \/ on_image_timeout
    \/ on_image_queue
    \/ shutdown

Spec == Init /\ [][Next]_vars

(***************************************************************************)
(* build_feature_spec called twice on one camera state.                    *)
(***************************************************************************)
InitBuild ==
    /\ collection \in {Numbered(fs) : fs \in Collections}
    /\ built = <<>>
    /\ component = <<>>
    /\ frame = <<>>
    /\ spec_defaults = <<>>
    /\ CamConstructed
    /\ \A n \in DynamicNodes : access[n] # "NA"
    /\ gui = GuiConstructed

Build ==
    /\ Len(built) < 2
    /\ CanDraw(collection, spec_defaults)
    /\ \E seed \in Seeds :
          LET r == build_feature_spec_default(collection, seed)
          IN  /\ built' = Append(built, [err |-> r.err, specs |-> r.specs,
                                         mapping |-> r.mapping])
              /\ spec_defaults' = r.mapping
    /\ UNCHANGED <<collection, component, frame>>
    /\ UNCHANGED camVars
    /\ UNCHANGED gui

NextBuild == Build

SpecBuild == InitBuild /\ [][NextBuild]_vars

(***************************************************************************)
(* The frame decoder on its own, given one component.                      *)
(***************************************************************************)
InitDecode ==
    /\ component \in Components(Shapes)
    /\ frame = <<>>
    /\ collection = <<>>
    /\ built = <<>>
    /\ spec_defaults = <<>>
    /\ CamConstructed
    /\ \A n \in DynamicNodes : access[n] # "NA"
    /\ gui = GuiConstructed

Decode ==
    /\ frame = <<>>
    /\ frame' = decode(component)
    /\ UNCHANGED <<collection, built, component, spec_defaults>>
    /\ UNCHANGED camVars
    /\ UNCHANGED gui

NextDecode == Decode

SpecDecode == InitDecode /\ [][NextDecode]_vars

(***************************************************************************)
(* The controller on its own: the trees the session can emit are handed to *)
(* on_feature_specs, the user operates the controls, and FeatureValue      *)
(* messages arrive, of either origin; those of origin Camera carry an      *)
(* identifier the session maps to a node that holds a value, of this       *)
(* generation of the tree or of an earlier one.                            *)
(***************************************************************************)
InitGui == Init /\ access[9] = "NI"

deliver_specs ==
    /\ gui.alive
    /\ \E profile \in AccessProfiles, seed \in Seeds :
          LET fs == LiveFeatures(RootFeatures, profile, node_value)
              r == build_feature_spec_default(fs, seed)
              after == on_feature_specs(gui, FeatureSpecs(r.specs))
          IN  /\ CanDraw(fs, spec_defaults)
              /\ r.err = "none"
              /\ spec_defaults' = r.mapping
              /\ \E survives \in BOOLEAN :
                    /\ ~survives => after.err # "none"
                    /\ gui' = [after EXCEPT !.alive = survives]
    /\ UNCHANGED camVars
    /\ UNCHANGED buildVars

\* the FeatureValue messages that reach the controller
Deliverable ==
    {FeatureValue(source, u, v) :
        source \in Source,
        u \in {x \in DOMAIN spec_defaults : spec_defaults[x] \in ValueNodes},
        v \in Values}

deliver_value ==
    /\ gui.alive
    /\ \E feature \in Deliverable :
          gui' = on_feature_value(gui, feature)
    /\ UNCHANGED spec_defaults
    /\ UNCHANGED camVars
    /\ UNCHANGED buildVars

user_select ==
    /\ gui.alive
    /\ gui.root # 0
    /\ \E k \in DOMAIN VisibilityChoices :
          LET level == VisibilityChoices[k]
              after == select_visibility(gui, level)
          IN  /\ level # gui.widgets[gui.widgets[gui.root].native_parent_changed].level
              /\ \E survives \in BOOLEAN :
                    /\ ~survives => after.err # "none"
                    /\ gui' = [after EXCEPT !.alive = survives]
    /\ UNCHANGED spec_defaults
    /\ UNCHANGED camVars
    /\ UNCHANGED buildVars

user_edit ==
    /\ gui.alive
    /\ \E widget \in Editable(gui), value \in Values :
          gui' = edit(gui, widget, value)
    /\ UNCHANGED spec_defaults
    /\ UNCHANGED camVars
    /\ UNCHANGED buildVars

NextGui ==
    \/ deliver_specs
    \/ deliver_value
    \/ user_select
    \/ user_edit

SpecGui == InitGui /\ [][NextGui]_vars

(***************************************************************************)
(* Helpers of the properties.                                              *)
(***************************************************************************)
IsCategorySpec(spec) == spec.interface_type = "intfICategory"

\* every spec of a tree, at any depth, in list order
RECURSIVE Flatten(_)
Flatten(specs) ==
    IF specs = <<>> THEN <<>>
    ELSE LET spec == specs[1]
         IN  <<spec>>
             \o (IF IsCategorySpec(spec) THEN Flatten(spec.children) ELSE <<>>)
             \o Flatten(Tail(specs))

TreeIds(specs) == {Flatten(specs)[k].uuid : k \in 1 .. Len(Flatten(specs))}

\* the tree a handler step emitted, if it emitted one
EmittedTrees(step) ==
    {step.out[k].specs : k \in {j \in 1 .. Len(step.out) : "specs" \in DOMAIN step.out[j]}}

\* a spec tree without its identifiers
RECURSIVE Anonymous(_)
Anonymous(specs) ==
    [k \in 1 .. Len(specs) |->
        IF IsCategorySpec(specs[k])
        THEN [specs[k] EXCEPT !.uuid = 0, !.children = Anonymous(specs[k].children)]
        ELSE [specs[k] EXCEPT !.uuid = 0]]

IsSkipped(feature) ==
    feature.principal_interface_type = "intfIInteger" /\ feature.access_mode = "NA"

\* a feature collection without its Not-Available Integer nodes
RECURSIVE WithoutSkipped(_)
WithoutSkipped(fs) ==
    IF fs = <<>> THEN <<>>
    ELSE IF IsSkipped(fs[1]) THEN WithoutSkipped(Tail(fs))
    ELSE <<[fs[1] EXCEPT !.features = WithoutSkipped(fs[1].features)]>>
         \o WithoutSkipped(Tail(fs))

RECURSIVE HasSkipped(_)
HasSkipped(fs) ==
    /\ fs # <<>>
    /\ \/ IsSkipped(fs[1])
       \/ HasSkipped(fs[1].features)
       \/ HasSkipped(Tail(fs))

\* every live node of a feature collection, nested ones included
RECURSIVE AllFeatures(_)
AllFeatures(fs) ==
    IF fs = <<>> THEN <<>>
    ELSE <<fs[1]>> \o AllFeatures(fs[1].features) \o AllFeatures(Tail(fs))

\* the live node numbered n of a feature collection
FeatureOf(fs, n) ==
    LET all == AllFeatures(fs)
    IN  all[CHOOSE k \in 1 .. Len(all) : all[k].node = n]

\* the spec carries what its constructor call could read from the live node
CarriesNode(spec, feature) ==
    /\ spec.display_name = feature.display_name
    /\ spec.visibility = feature.visibility
    /\ "access_mode" \in DOMAIN spec => spec.access_mode = feature.access_mode
    /\ "value" \in DOMAIN spec => spec.value = feature.value

\* two stores hold the same objects with the same attributes
SameWidgets(a, b) ==
    /\ DOMAIN a = DOMAIN b
    /\ \A w \in DOMAIN a :
          /\ DOMAIN a[w] = DOMAIN b[w]
          /\ \A attribute \in DOMAIN a[w] : a[w][attribute] = b[w][attribute]

NodeOf(message) == STATE_mapping[message.uuid]
IsCommandNamed(n, name) ==
    /\ NodeTable[n].kind = "intfICommand"
    /\ RemoveSpaces(NodeTable[n].display_name) = name

\* the two outcomes of a write, for the node the mapping holds for the identifier
WriteAccepted(message) ==
    /\ node_value'[NodeOf(message)] = message.value
    /\ last'.out = <<>>

WriteCorrected(message) ==
    /\ node_value' = node_value
    /\ last'.out = <<FeatureValue("CAMERA", message.uuid,
                                  node_value'[NodeOf(message)])>>

\* the Controller-origin messages whose identifier maps to a node holding a value
ValueWrites ==
    {message \in Messages :
        /\ message.source = "CONTROLLER"
        /\ message.uuid \in DOMAIN STATE_mapping
        /\ NodeTable[NodeOf(message)].kind \in ValueKinds}

(***************************************************************************)
(* C1.  A Controller-origin FeatureValue whose identifier maps to an       *)
(* Integer/Float/Boolean/Enumeration/String node has exactly one of two    *)
(* outcomes in on_ctrl: the node holds the written value and nothing is    *)
(* emitted, or the node values are unchanged and exactly one FeatureValue  *)
(* is emitted, of origin Camera, with the same identifier and the node's   *)
(* current value.                                                          *)
(***************************************************************************)
C1_WriteOrCorrective ==
    [][\A message \in ValueWrites :
          on_ctrl(message)
          => (WriteAccepted(message) # WriteCorrected(message))]_vars

(***************************************************************************)
(* C2.  on_ctrl applying AcquisitionStart (display name with its spaces    *)
(* removed) in mode Stopped leaves mode Started, the device acquiring, the *)
(* tree rebuilt exactly once, emitted and its mapping installed, and the   *)
(* mode-change event set, so that a loop blocked on the wait is released.  *)
(***************************************************************************)
C2_StartFromStopped ==
    [][\A message \in Messages :
          (/\ message.source = "CONTROLLER"
           /\ message.uuid \in DOMAIN STATE_mapping
           /\ IsCommandNamed(NodeOf(message), AcquisitionStart)
           /\ mode = "STOPPED"
           /\ on_ctrl(message))
          => (/\ mode' = "STARTED"
              /\ acquiring'
              /\ last'.builds = 1
              /\ Cardinality(EmittedTrees(last')) = 1
              /\ \A tree \in EmittedTrees(last') : TreeIds(tree) \subseteq DOMAIN STATE_mapping'
              /\ mode_change_ev'
              /\ (pc = "wait" => ENABLED on_image_wake)')]_vars

(***************************************************************************)
(* C3.  After a rebuild the stored mapping holds exactly the identifiers   *)
(* of the tree just built: no identifier of the mapping as it was before   *)
(* the rebuild remains unless the new tree carries it.                     *)
(***************************************************************************)
C3_MappingReplaced ==
    [][\A tree \in EmittedTrees(last') :
          last'.op \in {"send_ctrl", "on_ctrl"}
          => DOMAIN STATE_mapping' = TreeIds(tree)]_vars

(***************************************************************************)
(* C4.  No two specs of a tree returned by build_feature_spec, at any      *)
(* depth, carry the same identifier, in each of two consecutive builds.    *)
(***************************************************************************)
C4_UniqueIdentifiers ==
    \A b \in 1 .. Len(built) :
        built[b].err = "none"
        => LET flat == Flatten(built[b].specs)
           IN  \A i, j \in 1 .. Len(flat) : flat[i].uuid = flat[j].uuid => i = j

(***************************************************************************)
(* C5.  A Not-Available Integer node is skipped: the call returns, no      *)
(* mapping entry names the node, and the specs are those of the collection *)
(* without the node.                                                       *)
(***************************************************************************)
C5_NotAvailableSkipped ==
    \A b \in 1 .. Len(built) :
        HasSkipped(collection)
        => LET clean == build_feature_spec(WithoutSkipped(collection), <<>>, 1)
               new == DOMAIN built[b].mapping
                      \ (IF b = 1 THEN {} ELSE DOMAIN built[b - 1].mapping)
           IN  /\ built[b].err = clean.err
               /\ Anonymous(built[b].specs) = Anonymous(clean.specs)
               /\ {built[b].mapping[u] : u \in new}
                    = {clean.mapping[u] : u \in DOMAIN clean.mapping}

(***************************************************************************)
(* C6.  The mapping of the session maps the identifier of every spec of    *)
(* the tree it has just emitted to the live node the spec was built from.  *)
(***************************************************************************)
C6_MappingNamesOwnNode ==
    \A tree \in EmittedTrees(last) :
        \A k \in 1 .. Len(Flatten(tree)) :
            LET spec == Flatten(tree)[k]
            IN  /\ spec.uuid \in DOMAIN STATE_mapping
                /\ STATE_mapping[spec.uuid] = spec.node

(***************************************************************************)
(* C7.  on_feature_value given a Camera-origin FeatureValue emits no       *)
(* FeatureValue, and if the identifier is one of the tree on screen, the   *)
(* control the controller holds for it is on screen and shows the value of *)
(* the message.                                                            *)
(***************************************************************************)
C7_NoEcho ==
    (gui.op = "on_feature_value" /\ gui.message.source = "CAMERA")
    => /\ gui.emitted = <<>>
       /\ gui.message.uuid \in TreeIds(gui.specs)
          => LET widget == GuiMapping(gui)[gui.message.uuid]
             IN  /\ widget \in Rendered(gui)
                 /\ gui.widgets[widget].value = gui.message.value

C7_Witness ==
    /\ gui.op = "on_feature_value"
    /\ gui.message.source = "CAMERA"
    /\ gui.message.uuid \in TreeIds(gui.specs)
    /\ gui.message.value = MaxValue
    /\ LET widget == gui.widgets[GuiMapping(gui)[gui.message.uuid]]
       IN  /\ widget.kind = "SpinBox"
           /\ widget.on_value_changed = gui.message.uuid
           /\ widget.value = MaxValue

(***************************************************************************)
(* C8.  on_ctrl given a FeatureValue whose origin is not Controller leaves *)
(* mode, mapping, mode-change event and every live node as they were,      *)
(* executes no command and emits nothing; on_feature_value given a         *)
(* FeatureValue whose origin is not Camera leaves every control of the     *)
(* tree the session emitted as it was.                                     *)
(***************************************************************************)
C8_IgnoresOtherOrigins ==
    [][/\ (/\ last'.branch = "not_controller"
           /\ \E message \in Messages :
                 message.source # "CONTROLLER" /\ on_ctrl(message))
          => /\ UNCHANGED <<mode, mapping_obj, spec_defaults, mode_change_ev,
                            access, node_value, acquiring>>
             /\ last'.executed = {}
             /\ last'.out = <<>>
       /\ \A tree \in EmittedTrees(last') :
             LET g == on_feature_specs(GuiConstructed, FeatureSpecs(tree))
             IN  \A message \in Messages :
                     message.source # "CAMERA"
                     => LET after == on_feature_value(g, message)
                        IN  /\ SameWidgets(after.widgets, g.widgets)
                            /\ after.emitted = <<>>]_vars

C8_Witness ==
    /\ last.op = "on_ctrl"
    /\ last.branch = "not_controller"
    /\ DOMAIN STATE_mapping # {}
    /\ mode = "STARTED"

(***************************************************************************)
(* C9.  After a change of the visibility selector, the label of every      *)
(* category on screen, nested ones included, is visible exactly if some    *)
(* leaf control below the category has a spec whose visibility is at or    *)
(* below the selected level.                                               *)
(***************************************************************************)
C9_CategoryVisibleIffLeafVisible ==
    (gui.op = "select_visibility")
    => LET cb_visibility == gui.widgets[gui.widgets[gui.root].native_parent_changed]
           callbacks == cb_visibility.callbacks
           level == EVisibility[cb_visibility.level]
       IN  \A k \in 1 .. Len(callbacks) :
              callbacks[k].fn = "check_container_visibility"
              => (gui.widgets[callbacks[k].label].visible
                  <=> \E j \in 1 .. Len(callbacks) :
                         /\ callbacks[j].fn = "check_widget_visibility"
                         /\ callbacks[j].widget
                               \in Subtree(gui.widgets, callbacks[k].con)
                         /\ callbacks[j].visibility <= level)

(***************************************************************************)
(* C10.  After on_feature_specs the mapping of the controller holds        *)
(* exactly the identifiers of the tree it was given.                       *)
(***************************************************************************)
C10_ControllerMappingReplaced ==
    (gui.op = "on_feature_specs")
    => DOMAIN GuiMapping(gui) = TreeIds(gui.specs)

(***************************************************************************)
(* C11.  Every spec of a tree returned by build_feature_spec, of each of   *)
(* the seven kinds, carries the display name and the visibility of the     *)
(* live node it was built from and, for the kinds that have them, the      *)
(* access mode and the value of that node.                                 *)
(***************************************************************************)
C11_SpecCarriesNode ==
    \A b \in 1 .. Len(built) :
        built[b].err = "none"
        => \A k \in 1 .. Len(Flatten(built[b].specs)) :
              LET spec == Flatten(built[b].specs)[k]
              IN  CarriesNode(spec, FeatureOf(collection, spec.node))

\* on_ctrl applies the message as an acquisition-mode transition to mode to
AppliesTransition(message, name, to) ==
    /\ message.source = "CONTROLLER"
    /\ message.uuid \in DOMAIN STATE_mapping
    /\ IsCommandNamed(NodeOf(message), name)
    /\ mode # to

(***************************************************************************)
(* C12.  Within on_ctrl a FeatureSpecs tree is emitted after every         *)
(* acquisition-mode transition and only then: AcquisitionStart applied     *)
(* while not Started and AcquisitionStop applied while not Stopped (which  *)
(* stops the device and leaves mode Stopped) rebuild once and emit exactly *)
(* one tree; every other message changes no mode, rebuilds nothing and     *)
(* emits no tree.                                                          *)
(***************************************************************************)
C12_TreeAfterEveryTransition ==
    [][\A message \in Messages :
          on_ctrl(message)
          => IF AppliesTransition(message, AcquisitionStart, "STARTED")
             THEN /\ mode' = "STARTED"
                  /\ last'.builds = 1
                  /\ Cardinality(EmittedTrees(last')) = 1
             ELSE IF AppliesTransition(message, AcquisitionStop, "STOPPED")
             THEN /\ mode' = "STOPPED"
                  /\ ~acquiring'
                  /\ last'.builds = 1
                  /\ Cardinality(EmittedTrees(last')) = 1
             ELSE /\ mode' = mode
                  /\ last'.builds = 0
                  /\ EmittedTrees(last') = {}]_vars

(***************************************************************************)
(* C13.  When the fetch of the acquisition loop times out in mode Started, *)
(* the loop leaves mode and mapping unchanged, leaves the mode-change      *)
(* event as it was when the fetch was attempted (cleared, if the loop had  *)
(* just woken from the wait), emits no frame, and sleeps; the sleep        *)
(* changes nothing either, and the pass of the loop that follows the two   *)
(* sleeps attempts the fetch again if mode is still Started.               *)
(***************************************************************************)
C13_TimeoutRetries ==
    [][/\ (last'.op = "on_image" /\ last'.branch = "timeout" /\ pc # "sleep_timeout")
          => /\ mode = "STARTED" /\ mode' = mode
             /\ STATE_mapping' = STATE_mapping
             /\ mode_change_ev' = (IF pc = "wait" THEN FALSE ELSE mode_change_ev)
             /\ last'.out = <<>>
             /\ pc' = "sleep_timeout"
       /\ (pc = "sleep_timeout" /\ pc' # pc)
          => /\ pc' = "sleep"
             /\ mode' = mode
             /\ STATE_mapping' = STATE_mapping
             /\ mode_change_ev' = mode_change_ev
             /\ last'.out = <<>>
       /\ (pc = "sleep" /\ pc' # pc /\ mode = "STARTED" /\ ia # "None")
          => /\ last'.op = "on_image"
             /\ last'.branch \in FetchBranches]_vars

\* a fetch has just timed out in mode Started and the loop sleeps
C13_Witness ==
    /\ last.op = "on_image"
    /\ last.branch = "timeout"
    /\ pc = "sleep_timeout"
    /\ mode = "STARTED"

(***************************************************************************)
(* C14.  shutdown can be taken in every state of a running session, in     *)
(* each mode and wherever the acquisition loop stands, the mode-change     *)
(* wait included; it completes in one step, leaves the device not          *)
(* acquiring if one is bound, and resets the backend, which over the whole *)
(* session is reset exactly once, also when no device is bound or the      *)
(* device is already stopped.                                              *)
(***************************************************************************)
C14_ShutdownResetsOnce ==
    [][/\ phase = "running" => ENABLED shutdown
       /\ last'.op = "shutdown"
          => /\ phase' = "shut_down"
             /\ ia # "None" => ~acquiring' /\ last'.branch = "stop"
             /\ core = 0 /\ core' = 1
             /\ pc' = pc /\ mode' = mode
       /\ last'.op # "shutdown" => core' = core]_vars

\* shutdown has run with the loop blocked on the mode-change wait, after a
\* start and a stop, on a device already stopped
C14_Witness ==
    /\ phase = "shut_down"
    /\ core = 1
    /\ pc = "wait"
    /\ mode = "STOPPED"
    /\ ia # "None"
    /\ mapping_obj = "spec_defaults"

(***************************************************************************)
(* C15.  Every buffer the acquisition loop has fetched is returned to the  *)
(* pool of the device, whatever its pixel format: the loop holds a buffer  *)
(* it has not queued only while it stands at the yield of the frame, from  *)
(* where its next step queues the buffer, once; in particular it does not  *)
(* end by the unsupported-format error with the buffer held.               *)
(***************************************************************************)
C15_FetchedBufferQueued ==
    [][/\ buffer' = "held" => pc' = "yield"
       /\ buffer' = "queued" /\ buffer # "queued"
          => buffer = "held" /\ last'.branch = "queued"]_vars

\* the samples of the pixel at row r and column col of a component, in the
\* order the buffer holds them
PixelOf(c, r, col) ==
    [k \in 1 .. c.num_components_per_pixel |->
        c.data[((r - 1) * c.width + (col - 1)) * c.num_components_per_pixel + k]]

\* the exponent of the division that takes samples of the format to 8 bits
ExponentOf(data_format) ==
    IF data_format.bits > 8 THEN data_format.bits - 8 ELSE 0

\* the samples of a pixel divided by 2^exponent, truncated
Scaled(pixel, exponent) ==
    [k \in DOMAIN pixel |-> pixel[k] \div (2 ^ exponent)]

Reversed(pixel) == [k \in DOMAIN pixel |-> pixel[Len(pixel) - k + 1]]

\* the first and the third sample exchanged
SwapRB(pixel) ==
    [k \in DOMAIN pixel |->
        IF k = 1 THEN pixel[3] ELSE IF k = 3 THEN pixel[1] ELSE pixel[k]]

\* the decoder was given a component of a named format and returned an image
Decoded == frame # <<>> /\ ~component.custom /\ frame.err = "none"

(***************************************************************************)
(* C16.  Decoding a component whose format has more than 8 bits per sample *)
(* gives, at every pixel, each sample divided by 2^(bits-8) and truncated  *)
(* (floor(value / 256) for 16 bits), for monochrome and Bayer formats as   *)
(* for colour formats.                                                     *)
(***************************************************************************)
C16_DividedToEightBits ==
    (Decoded /\ component.data_format.bits > 8)
    => LET exponent == ExponentOf(component.data_format)
       IN  \A r \in 1 .. component.height, col \in 1 .. component.width :
              IF component.num_components_per_pixel = 1
              THEN frame.content[r][col] = PixelOf(component, r, col)[1] \div (2 ^ exponent)
              ELSE frame.content[r][col]
                     \in {Scaled(PixelOf(component, r, col), exponent),
                          Reversed(Scaled(PixelOf(component, r, col), exponent))}

(***************************************************************************)
(* C17.  Decoding a component of an RGB, RGBA, BGR or BGRA format gives an *)
(* image whose channels are RGB-ordered: a pixel of an RGB-ordered format  *)
(* keeps the order of its samples, and a pixel of a BGR-ordered format,    *)
(* BGR and BGRA alike, has its channel axis reversed or its R and B        *)
(* samples exchanged with G unchanged.                                     *)
(***************************************************************************)
C17_ChannelsRgbOrdered ==
    (Decoded /\ component.num_components_per_pixel >= 3)
    => LET exponent == ExponentOf(component.data_format)
       IN  \A r \in 1 .. component.height, col \in 1 .. component.width :
              LET pixel == Scaled(PixelOf(component, r, col), exponent)
              IN  IF component.data_format \in rgb_formats \cup rgba_formats
                  THEN frame.content[r][col] = pixel
                  ELSE frame.content[r][col] \in {Reversed(pixel), SwapRB(pixel)}

\* the Controller-origin messages whose identifier is not in STATE.mapping
UnknownWrites ==
    {message \in Messages :
        /\ message.source = "CONTROLLER"
        /\ message.uuid \notin DOMAIN STATE_mapping}

(***************************************************************************)
(* C18.  on_ctrl given a Controller-origin FeatureValue whose identifier   *)
(* is not in the mapping of the session changes neither mode, mapping,     *)
(* mode-change event nor any live node, executes no command, emits nothing *)
(* and raises nothing, and the session goes on handling messages.          *)
(***************************************************************************)
C18_UnknownIdentifierIgnored ==
    [][(/\ last'.op = "on_ctrl"
        /\ last'.branch = "unknown"
        /\ \E message \in UnknownWrites : on_ctrl(message))
          => /\ mode' = mode
             /\ STATE_mapping' = STATE_mapping
             /\ mode_change_ev' = mode_change_ev
             /\ node_value' = node_value
             /\ access' = access
             /\ acquiring' = acquiring
             /\ last'.out = <<>>
             /\ last'.err = "none"
             /\ last'.executed = {}
             /\ (ENABLED (\E later \in Messages : on_ctrl(later)))']_vars

\* an identifier that the mapping in use does not hold has just been ignored
C18_Witness ==
    /\ last.op = "on_ctrl"
    /\ last.branch = "unknown"
    /\ STATE_mapping # <<>>

(***************************************************************************)
(* C19.  No wakeup is lost: the acquisition loop is never blocked on the   *)
(* mode-change wait in mode Started with the event clear, that is, with    *)
(* nothing left to wake it; and the pass that a wake starts leaves the     *)
(* event as the clear made it.                                             *)
(***************************************************************************)
C19_NoLostWakeup ==
    [][/\ (pc' = "wait" /\ mode' = "STARTED") => mode_change_ev'
       /\ (pc = "wait" /\ pc' # "wait") => ~mode_change_ev']_vars

(***************************************************************************)
(* C20.  Between a successful fetch and the return of the buffer to the    *)
(* pool of the device no other handler step runs: the step that queues     *)
(* the buffer follows the pass of the loop that fetched it, and the device *)
(* is still acquiring, no on_ctrl having stopped it in between.            *)
(***************************************************************************)
C20_NothingBetweenFetchAndQueue ==
    [][(last'.op = "on_image" /\ last'.branch = "queued")
          => /\ last.op = "on_image"
             /\ last.branch = "buffer"
             /\ acquiring]_vars

(***************************************************************************)
(* C21.  In every state reached through initialize, send_ctrl, on_ctrl,    *)
(* the acquisition loop and shutdown, mode is Stopped or Started: nothing  *)
(* puts the session in mode Paused.                                        *)
(***************************************************************************)
C21_NeverPaused == mode \in {"STOPPED", "STARTED"}

\* the session was started and stopped again, and then shut down
C21_Witness ==
    /\ phase = "shut_down"
    /\ mode = "STOPPED"
    /\ mapping_obj = "spec_defaults"
    /\ buffer = "queued"

(***************************************************************************)
(* C22.  Before shutdown the mode agrees with the device: mode is Started  *)
(* only if a device is bound and its acquisition was started more recently *)
(* than stopped, mode is Stopped only if no device is bound or its         *)
(* acquisition is not running, and the acquisition loop is never in its    *)
(* Started branch with no device bound.                                    *)
(***************************************************************************)
C22_ModeAgreesWithDevice ==
    phase # "shut_down"
    => /\ mode = "STARTED" => (ia # "None" /\ acquiring)
       /\ mode = "STOPPED" => (ia = "None" \/ ~acquiring)
       /\ pc # "running"
       /\ ~(last.op = "on_image" /\ last.branch = "no_device")

\* the loop has fetched a buffer in mode Started from a bound device that is
\* acquiring, the tree of the session having been built
C22_Witness ==
    /\ phase = "running"
    /\ mode = "STARTED"
    /\ acquiring
    /\ mapping_obj = "spec_defaults"
    /\ last.op = "on_image"
    /\ last.branch = "buffer"

(***************************************************************************)
(* C23.  When the rebuild of an AcquisitionStart or AcquisitionStop        *)
(* command fails by the unsupported-interface-type error, the session is   *)
(* left consistent: mode has not become Started with the mode-change event *)
(* left clear, and the stored mapping holds no entry of the tree the       *)
(* failed rebuild had begun.                                               *)
(***************************************************************************)
C23_FailedRebuildConsistent ==
    [][(last'.op = "on_ctrl" /\ last'.builds = 1 /\ last'.err = "ValueError")
          => /\ ~(mode # "STARTED" /\ mode' = "STARTED" /\ ~mode_change_ev')
             /\ STATE_mapping' = STATE_mapping]_vars

====
